---------------------------- MODULE Spec2Model ----------------------------
(***************************************************************************)
(* Model of the browser-automation scripts of forbidden-library-native:    *)
(*   scripts/browser-test.py  (ForbiddenLibraryTester, main)               *)
(*   scripts/debug-page.py    (debug_page)                                 *)
(* The browser session is the environment: every session call either      *)
(* raises or returns a value drawn from a small set.                       *)
(***************************************************************************)
EXTENDS Integers, Sequences, FiniteSets, TLC

VARIABLES
    pc,          \* position of browser-test.py's main / run_all_tests
    args,        \* main: the parsed command line ("unparsed" before)
    session,     \* the browser process of the tester: "None", "Open", "Closed"
    driver,      \* self.driver: "None" or "Set"
    results,     \* self.results: test name -> recorded outcome
    success,     \* what run_all_tests returns ("none" until it returns)
    exitCode,    \* the process exit status ("none" until the process exits)
    trace,       \* calls issued by the check that ran last, in order
    vi,          \* test_responsive_design: index of the next viewport
    lines,       \* test_responsive_design: the per-viewport lines printed
    times,       \* test_performance: the local list times
    issues,      \* checks that printed a finding and still recorded a pass
    \* (trace, vi, lines and times belong to the check that is running or ran
    \* last: the first step of the next check discards them)
    \* debug-page.py
    dpc,         \* position of debug_page
    dsession,    \* the browser process of debug_page: "None", "Open", "Closed"
    ddriver,     \* whether the local driver is bound: "unbound" or "bound"
    page,        \* driver.page_source of the page loaded (NoPage before)
    logs,        \* what driver.get_log('browser') returned
    found_errors,\* the local list found_errors
    shown,       \* the console entries printed
    printed,     \* the [WARNING] and [ERROR] findings printed
    ran,         \* the checks of debug_page that ran to their end
    \* the page-health classification
    expected,    \* the positions in `markers` of the markers expected
    verdict      \* the HealthVerdict of the page and its log

tvars == <<pc, args, session, driver, results, success, exitCode, trace, vi,
           lines, times, issues>>

dvars == <<dpc, dsession, ddriver, found_errors, shown, printed, ran>>

\* the page observed, its console log and the markers expected of it
snapshot == <<page, logs, expected>>

vars == <<tvars, dvars, snapshot, verdict>>

-----------------------------------------------------------------------------
(* Bounds of the model *)

\* a measured navigation takes 0..MaxLoad seconds
MaxLoad == 1

\* a page has at most MaxFragments parts
MaxFragments == 2

\* a short console log has at most MaxLogs entries
MaxLogs == 1

\* the length of the long console log
LongLog == 7

-----------------------------------------------------------------------------
(* Program constants *)

base_url == "http://localhost:8080"

health_url == base_url \o "/health"

viewports ==
    << [width |-> 1920, height |-> 1080, name |-> "Desktop"],
       [width |-> 768,  height |-> 1024, name |-> "Tablet"],
       [width |-> 375,  height |-> 667,  name |-> "Mobile"] >>

SettleDelay == 1

Samples == 5

-----------------------------------------------------------------------------
(* Helpers *)

\* a call the script issued: what was called, how long it took and whether
\* it returned ("ok", or the value returned) or raised
Call(op, arg, took, out) == [op |-> op, arg |-> arg, took |-> took, out |-> out]

Raised(call) == [call EXCEPT !.out = "raised"]

\* str(bool)
Str(b) == IF b THEN "True" ELSE "False"

\* Python's `needle in haystack` on strings
Contains(haystack, needle) ==
    \E i \in 1..(Len(haystack) - Len(needle) + 1) :
        SubSeq(haystack, i, i + Len(needle) - 1) = needle

Whitespace == {" ", "\n", "\t"}

RECURSIVE LStrip(_)
LStrip(s) ==
    IF Len(s) > 0 /\ SubSeq(s, 1, 1) \in Whitespace
    THEN LStrip(SubSeq(s, 2, Len(s)))
    ELSE s

RECURSIVE RStrip(_)
RStrip(s) ==
    IF Len(s) > 0 /\ SubSeq(s, Len(s), Len(s)) \in Whitespace
    THEN RStrip(SubSeq(s, 1, Len(s) - 1))
    ELSE s

\* str.strip()
Strip(s) == RStrip(LStrip(s))

BoolResult(b) == [type |-> "bool", value |-> b]

DictResult(d) == [type |-> "dict", items |-> d]

Record(name, value) ==
    [n \in DOMAIN results \cup {name} |->
        IF n = name THEN value ELSE results[n]]

-----------------------------------------------------------------------------
(* Values the browser returns *)

BodyTexts == {"healthy", " healthy\n", "unhealthy", ""}

Titles == {"Forbidden Library", "502 Bad Gateway"}

\* no page has been classified
Unclassified == [verdict |-> "none", signals |-> {}, console |-> << >>]

\* no page was loaded
NoPage == [parts |-> << >>, filler |-> 0]

\* what time.time() returns when a measurement starts, in seconds; the clock
\* does not run backwards during a measurement
Epochs == {0, 1700000000}

-----------------------------------------------------------------------------
(* browser-test.py *)

TesterInit ==
    /\ pc = "main"
    /\ args = "unparsed"
    /\ session = "None"
    /\ driver = "None"
    /\ results = << >>
    /\ success = "none"
    /\ exitCode = "none"
    /\ trace = << >>
    /\ vi = 1
    /\ lines = << >>
    /\ times = << >>
    /\ issues = {}

DebugInit ==
    /\ dpc = "start"
    /\ dsession = "None"
    /\ ddriver = "unbound"
    /\ found_errors = << >>
    /\ shown = << >>
    /\ printed = {}
    /\ ran = {}

Init ==
    /\ TesterInit
    /\ DebugInit
    /\ page = NoPage
    /\ logs = << >>
    /\ expected = 1..3            \* debug_page looks for all of `markers`
    /\ verdict = Unclassified

\* main: parse the arguments; --install-deps installs and returns, and the
\* process ends with status 0
Main ==
    /\ pc = "main"
    /\ \E headless \in BOOLEAN, install_deps \in BOOLEAN :
        /\ args' = [headless |-> headless, install_deps |-> install_deps]
        /\ IF install_deps
           THEN /\ pc' = "exited"
                /\ exitCode' = 0
           ELSE /\ pc' = "setup"
                /\ UNCHANGED exitCode
    /\ UNCHANGED <<session, driver, results, success, trace, vi, lines, times,
                   issues>>
    /\ UNCHANGED <<dvars, snapshot, verdict>>

\* whether setup_driver created a browser: the first webdriver.Chrome
\* returned, or it raised WebDriverException and the fallback's returned
Created(first, fallback) ==
    first = "ok" \/ (first = "WebDriverException" /\ fallback = "ok")

\* setup_driver, and run_all_tests' return when it reports failure
SetupDriver ==
    /\ pc = "setup"
    /\ \E first \in {"ok", "WebDriverException", "Exception"},
          fallback \in {"ok", "Exception"},
          wait \in {"ok", "Exception"} :
        LET created == Created(first, fallback)
            ok == created /\ wait = "ok"
        IN  /\ session' = IF created THEN "Open" ELSE "None"
            /\ driver' = IF created THEN "Set" ELSE "None"
            /\ trace' = IF created
                        THEN << IF wait = "ok"
                                THEN Call("implicitly_wait", "10", 0, "ok")
                                ELSE Raised(Call("implicitly_wait", "10", 0, "ok")) >>
                        ELSE << >>
            /\ IF ok
               THEN /\ pc' = "health_check"
                    /\ UNCHANGED success
               ELSE /\ pc' = "exit"
                    /\ success' = FALSE
    /\ UNCHANGED <<args, results, exitCode, vi, lines, times, issues>>
    /\ UNCHANGED <<dvars, snapshot, verdict>>

\* the calls a check issued when its fail-th call raised (0: none raised)
Issued(calls, fail) ==
    IF fail = 0
    THEN calls
    ELSE [i \in 1..fail |-> IF i = fail THEN Raised(calls[i]) ELSE calls[i]]

\* test_health_check
TestHealthCheck ==
    /\ pc = "health_check"
    /\ \E fail \in 0..2, text \in BodyTexts :
        LET calls == << Call("get", health_url, 0, "ok"),
                        Call("find_element", "body", 0, text) >>
            content == Strip(text)
        IN  /\ trace' = Issued(calls, fail)
            /\ results' = Record("health_check",
                                 BoolResult(fail = 0 /\ content = "healthy"))
    /\ pc' = "main_application"
    /\ UNCHANGED <<args, session, driver, success, exitCode, vi, lines, times,
                   issues>>
    /\ UNCHANGED <<dvars, snapshot, verdict>>

\* mutant of LoadTime: the subtraction the other way round
LoadTime_Swapped(start_time, now) == (start_time - now) * 1000

\* load_time = (time.time() - start_time) * 1000
LoadTime(start_time, now) == (now - start_time) * 1000

\* test_main_application
TestMainApplication ==
    /\ pc = "main_application"
    /\ \E fail \in 0..6, start_time \in Epochs, d \in 0..MaxLoad,
          title \in Titles, has_theme \in BOOLEAN, has_sveltekit \in BOOLEAN :
        LET calls == << Call("get", base_url, d, "ok"),
                        Call("title", "", 0, title),
                        Call("find_elements", "[data-theme=\"dark\"]", 0,
                             Str(has_theme)),
                        Call("find_elements", "[data-sveltekit-preload-data]", 0,
                             Str(has_sveltekit)),
                        Call("find_elements", "body", 0, "ok"),
                        Call("page_source", "", 0, "ok") >>
        IN  /\ trace' = Issued(calls, fail)
            /\ results' = Record("main_application",
                 IF fail = 0
                 THEN DictResult([success |-> TRUE,
                                  load_time |-> LoadTime(start_time, start_time + d),
                                  title |-> title,
                                  has_theme |-> has_theme,
                                  has_sveltekit |-> has_sveltekit])
                 ELSE DictResult([success |-> FALSE]))
    /\ pc' = "responsive_design"
    /\ UNCHANGED <<args, session, driver, success, exitCode, vi, lines, times,
                   issues>>
    /\ UNCHANGED <<dvars, snapshot, verdict>>

\* the arguments of set_window_size(width, height)
WindowSize(v) == ToString(v.width) \o "x" \o ToString(v.height)

\* the line test_responsive_design prints for a viewport
ViewportLine(v, displayed) ==
    [name |-> v.name, width |-> v.width, height |-> v.height,
     responsive |-> displayed]

\* mutant of TestResponsiveViewport: a body that is not displayed ends the
\* loop and fails the check
TestResponsiveViewport_StopsWhenHidden ==
    /\ pc = "responsive_design"
    /\ vi <= Len(viewports)
    /\ \E fail \in {0, 1, 3, 4}, displayed \in BOOLEAN :
        LET v == viewports[vi]
            calls == << Call("set_window_size", WindowSize(v), 0, "ok"),
                        Call("sleep", "", SettleDelay, "ok"),
                        Call("find_element", "body", 0, "ok"),
                        Call("is_displayed", "", 0, Str(displayed)) >>
            before == IF vi = 1 THEN << >> ELSE trace
        IN  /\ trace' = before \o Issued(calls, fail)
            /\ IF fail = 0 /\ displayed
               THEN /\ lines' = Append(lines, ViewportLine(v, displayed))
                    /\ vi' = vi + 1
                    /\ UNCHANGED <<pc, results, issues>>
               ELSE /\ results' = Record("responsive_design", BoolResult(FALSE))
                    /\ pc' = "performance"
                    /\ UNCHANGED <<lines, vi, issues>>
    /\ UNCHANGED <<args, session, driver, success, exitCode, times>>
    /\ UNCHANGED <<dvars, snapshot, verdict>>

\* test_responsive_design: one pass of the loop over viewports; a call that
\* raises leaves the loop for the except clause (time.sleep does not raise)
TestResponsiveViewport ==
    /\ pc = "responsive_design"
    /\ vi <= Len(viewports)
    /\ \E fail \in {0, 1, 3, 4}, displayed \in BOOLEAN :
        LET v == viewports[vi]
            calls == << Call("set_window_size", WindowSize(v), 0, "ok"),
                        Call("sleep", "", SettleDelay, "ok"),
                        Call("find_element", "body", 0, "ok"),
                        Call("is_displayed", "", 0, Str(displayed)) >>
            before == IF vi = 1 THEN << >> ELSE trace
        IN  /\ trace' = before \o Issued(calls, fail)
            /\ IF fail = 0
               THEN /\ lines' = Append(lines, ViewportLine(v, displayed))
                    /\ vi' = vi + 1
                    /\ issues' = IF displayed THEN issues
                                  ELSE issues \cup {"responsive_design"}
                    /\ UNCHANGED <<pc, results>>
               ELSE /\ results' = Record("responsive_design", BoolResult(FALSE))
                    /\ pc' = "performance"
                    /\ UNCHANGED <<lines, vi, issues>>
    /\ UNCHANGED <<args, session, driver, success, exitCode, times>>
    /\ UNCHANGED <<dvars, snapshot, verdict>>

\* test_responsive_design: the loop is over
TestResponsiveDone ==
    /\ pc = "responsive_design"
    /\ vi > Len(viewports)
    /\ results' = Record("responsive_design", BoolResult(TRUE))
    /\ pc' = "performance"
    /\ UNCHANGED <<args, session, driver, success, exitCode, trace, vi,
                   lines, times, issues>>
    /\ UNCHANGED <<dvars, snapshot, verdict>>

\* times.append(load_time)
AppendTime(ts, load_time) == Append(ts, load_time)

\* test_performance: one pass of the loop for i in range(5)
TestPerformanceSample ==
    /\ pc = "performance"
    /\ Len(times) < Samples
    /\ \E ok \in BOOLEAN, start_time \in Epochs, d \in 0..MaxLoad :
        LET before == IF Len(times) = 0 THEN << >> ELSE trace
            call == Call("get", base_url, d, "ok")
        IN  /\ trace' = Append(before, IF ok THEN call ELSE Raised(call))
            /\ IF ok
               THEN /\ times' = AppendTime(times,
                                          LoadTime(start_time, start_time + d))
                    /\ UNCHANGED <<pc, results>>
               ELSE /\ results' = Record("performance",
                                         DictResult([success |-> FALSE]))
                    /\ pc' = "user_interaction"
                    /\ UNCHANGED times
    /\ vi' = 1
    /\ lines' = << >>
    /\ UNCHANGED <<args, session, driver, success, exitCode, issues>>
    /\ UNCHANGED <<dvars, snapshot, verdict>>

RECURSIVE Sum(_)
Sum(ts) == IF ts = << >> THEN 0 ELSE Head(ts) + Sum(Tail(ts))

Min(ts) == CHOOSE t \in {ts[i] : i \in DOMAIN ts} :
               \A i \in DOMAIN ts : t <= ts[i]

Max(ts) == CHOOSE t \in {ts[i] : i \in DOMAIN ts} :
               \A i \in DOMAIN ts : t >= ts[i]

\* test_performance: the statistics after the loop; the average
\* sum(times) / len(times) is kept as the fraction <<sum, len>>
TestPerformanceStats ==
    /\ pc = "performance"
    /\ Len(times) = Samples
    /\ results' = Record("performance",
                         DictResult([average |-> <<Sum(times), Len(times)>>,
                                     minimum |-> Min(times),
                                     maximum |-> Max(times)]))
    /\ pc' = "user_interaction"
    /\ UNCHANGED <<args, session, driver, success, exitCode, trace, vi,
                   lines, times, issues>>
    /\ UNCHANGED <<dvars, snapshot, verdict>>

\* test_user_interaction: a page without buttons and links passes too
TestUserInteraction ==
    /\ pc = "user_interaction"
    /\ \E fail \in 0..4, buttons \in 0..1, links \in 0..1 :
        LET calls == << Call("get", base_url, 0, "ok"),
                        Call("find_elements", "button", 0, "ok"),
                        Call("find_elements", "a", 0, "ok"),
                        Call("find_elements", "input", 0, "ok") >>
            interactive == buttons > 0 \/ links > 0
        IN  /\ trace' = Issued(calls, fail)
            /\ results' = Record("user_interaction", BoolResult(fail = 0))
            /\ issues' = IF fail = 0 /\ ~interactive
                          THEN issues \cup {"user_interaction"}
                          ELSE issues
    /\ times' = << >>
    /\ pc' = "screenshot"
    /\ UNCHANGED <<args, session, driver, success, exitCode, vi, lines>>
    /\ UNCHANGED <<dvars, snapshot, verdict>>

\* take_screenshot: a failure is printed and swallowed
TakeScreenshot ==
    /\ pc = "screenshot"
    /\ \E ok \in BOOLEAN :
        LET call == Call("save_screenshot", "forbidden-library-test.png", 0, "ok")
        IN  trace' = << IF ok THEN call ELSE Raised(call) >>
    /\ pc' = "report"
    /\ UNCHANGED <<args, session, driver, results, success, exitCode, vi,
                   lines, times, issues>>
    /\ UNCHANGED <<dvars, snapshot, verdict>>

\* mutant of Passed: result.get("success", False)
Passed_DefaultFalse(result) ==
    IF result.type = "dict"
    THEN IF "success" \in DOMAIN result.items
         THEN result.items.success
         ELSE FALSE
    ELSE result.value

\* generate_report: success of one entry of self.results
Passed(result) ==
    IF result.type = "dict"
    THEN IF "success" \in DOMAIN result.items
         THEN result.items.success
         ELSE TRUE
    ELSE result.value

\* generate_report: passed == total
ReportSuccess(res) ==
    Cardinality({n \in DOMAIN res : Passed(res[n])}) = Cardinality(DOMAIN res)

\* generate_report, and run_all_tests' return of its value
GenerateReport ==
    /\ pc = "report"
    /\ success' = ReportSuccess(results)
    /\ pc' = "finally"
    /\ UNCHANGED <<args, session, driver, results, exitCode, trace, vi,
                   lines, times, issues>>
    /\ UNCHANGED <<dvars, snapshot, verdict>>

\* mutant of Finally: the finally clause is run a second time
Finally_QuitsTwice ==
    /\ pc = "finally"
    /\ IF driver # "None"
       THEN /\ session' = "Closed"
            /\ trace' = << Call("quit", "", 0, "ok") >>
       ELSE UNCHANGED <<session, trace>>
    /\ pc' = IF session = "Closed" THEN "exit" ELSE "finally"
    /\ UNCHANGED <<args, driver, results, success, exitCode, vi, lines,
                   times, issues>>
    /\ UNCHANGED <<dvars, snapshot, verdict>>

\* run_all_tests: the finally clause
Finally ==
    /\ pc = "finally"
    /\ IF driver # "None"
       THEN /\ session' = "Closed"
            /\ trace' = << Call("quit", "", 0, "ok") >>
       ELSE UNCHANGED <<session, trace>>
    /\ pc' = "exit"
    /\ UNCHANGED <<args, driver, results, success, exitCode, vi, lines,
                   times, issues>>
    /\ UNCHANGED <<dvars, snapshot, verdict>>

\* main: sys.exit(0 if success else 1)
Exit ==
    /\ pc = "exit"
    /\ exitCode' = IF success THEN 0 ELSE 1
    /\ pc' = "exited"
    /\ UNCHANGED <<args, session, driver, results, success, trace, vi,
                   lines, times, issues>>
    /\ UNCHANGED <<dvars, snapshot, verdict>>

Next ==
    \/ Main
    \/ SetupDriver
    \/ TestHealthCheck
    \/ TestMainApplication
    \/ TestResponsiveViewport
    \/ TestResponsiveDone
    \/ TestPerformanceSample
    \/ TestPerformanceStats
    \/ TestUserInteraction
    \/ TakeScreenshot
    \/ GenerateReport
    \/ Finally
    \/ Exit

Spec == Init /\ [][Next]_vars

-----------------------------------------------------------------------------
(* Pages and console logs *)

\* A page source is the concatenation of its parts followed by `filler`
\* characters that occur in no error pattern and no marker and have no upper
\* case (a run of "-"): only its length and the text of its parts matter.

RECURSIVE Join(_)
Join(parts) == IF parts = << >> THEN "" ELSE Head(parts) \o Join(Tail(parts))

PageText(p) == Join(p.parts)

\* len(driver.page_source)
SourceLen(p) == Len(PageText(p)) + p.filler

\* the lower-case letter of each upper-case letter
LowerCase ==
    [A |-> "a", B |-> "b", C |-> "c", D |-> "d", E |-> "e", F |-> "f",
     G |-> "g", H |-> "h", I |-> "i", J |-> "j", K |-> "k", L |-> "l",
     M |-> "m", N |-> "n", O |-> "o", P |-> "p", Q |-> "q", R |-> "r",
     S |-> "s", T |-> "t", U |-> "u", V |-> "v", W |-> "w", X |-> "x",
     Y |-> "y", Z |-> "z"]

UpperCase == DOMAIN LowerCase

LowerChar(c) == IF c \in UpperCase THEN LowerCase[c] ELSE c

\* mutant of Lower: the text is left in its case
Lower_Identity(str) == str

\* str.lower()
RECURSIVE Lower(_)
Lower(str) ==
    IF Len(str) = 0 THEN ""
    ELSE IF Len(str) = 1 THEN LowerChar(str)
    ELSE LET half == Len(str) \div 2
         IN  Lower(SubSeq(str, 1, half)) \o Lower(SubSeq(str, half + 1, Len(str)))

\* a message of a console entry is its text followed by `filler` characters;
\* message[:n]
Slice(message, n) ==
    IF n <= Len(message.text)
    THEN [text |-> SubSeq(message.text, 1, n), filler |-> 0]
    ELSE [text |-> message.text,
          filler |-> IF message.filler < n - Len(message.text)
                     THEN message.filler
                     ELSE n - Len(message.text)]

FragShell ==
    "<html data-theme=\"dark\"><title>Forbidden Library</title><script src=\"/_app/SvelteKit.js\"></script>"

FragTitle == "<h1>Forbidden Library</h1>"

FragGateway == "502 Bad Gateway, 503 Service Unavailable"

Frag500 == "500 Internal Server Error"

Frag404 == "404 Not Found"

FragFailed == "Request FAILED after Timeout: Exception"

FragErrors == "error Error ERROR"

Fragments ==
    {FragShell, FragTitle, FragGateway, Frag500, Frag404, FragFailed, FragErrors}

PartSeqs == UNION {[1..k -> Fragments] : k \in 0..MaxFragments}

\* a page is filled up to one of these lengths (0: no filler)
FillTo == {0, 999, 1000}

Pages ==
    {[parts |-> x[1],
      filler |-> IF x[2] > Len(Join(x[1])) THEN x[2] - Len(Join(x[1])) ELSE 0] :
        x \in PartSeqs \X FillTo}

LogInfo ==
    [level |-> "INFO",
     message |-> [text |-> "console-api 2:32 \"Download the Svelte DevTools\"",
                  filler |-> 0]]

LogWarning ==
    [level |-> "WARNING",
     message |-> [text |-> "deprecated API", filler |-> 0]]

LogSevere ==
    [level |-> "SEVERE",
     message |-> [text |-> "http://localhost:3000/favicon.ico - Failed to load resource",
                  filler |-> 300]]

LogEntries == {LogInfo, LogWarning, LogSevere}

\* the console logs: the short ones, and one long log of INFO entries
LogSeqs ==
    UNION {[1..k -> LogEntries] : k \in 0..MaxLogs}
        \cup {[i \in 1..LongLog |-> LogInfo]}

-----------------------------------------------------------------------------
(* debug-page.py: the checks of a loaded page *)

error_patterns ==
    << "error", "Error", "ERROR", "exception", "Exception", "EXCEPTION",
       "failed", "Failed", "FAILED", "not found", "Not Found", "404",
       "500", "502", "503", "timeout", "Timeout", "TIMEOUT" >>

\* the patterns p of error_patterns, in order, with p.lower() in
\* driver.page_source.lower() (the filler matches no pattern)
FoundErrors(p) ==
    LET page_source == Lower(PageText(p))
    IN  SelectSeq(error_patterns,
                  LAMBDA pattern : Contains(page_source, Lower(pattern)))

\* mutant of ShortSource: the threshold a digit short
ShortSource_100(p) == SourceLen(p) < 100

\* len(driver.page_source) < 1000
ShortSource(p) == SourceLen(p) < 1000

\* the content debug_page looks for
markers == << "Forbidden Library", "data-theme=\"dark\"", "sveltekit" >>

\* "Forbidden Library" in driver.page_source, "data-theme=\"dark\"" in
\* driver.page_source, "sveltekit" in driver.page_source.lower()
MarkerFound(p, i) ==
    IF i = 3
    THEN Contains(Lower(PageText(p)), markers[i])
    ELSE Contains(PageText(p), markers[i])

\* the markers among the first k that debug_page does not find
MissingAmong(p, k) == {markers[i] : i \in {j \in 1..k : ~MarkerFound(p, j)}}

MissingMarkers(p) == MissingAmong(p, 3)

\* the markers of a set of positions in `markers` that are not found
MissingOf(p, positions) == {markers[i] : i \in {j \in positions : ~MarkerFound(p, j)}}

\* if logs: any console entry is reported as a console error
ConsoleWarning(entries) == entries # << >>

\* for log in logs[:5]: log['level'], log['message'][:200]
ShownEntries(entries) ==
    [i \in 1..(IF Len(entries) < 5 THEN Len(entries) ELSE 5) |->
        [level |-> entries[i].level,
         message |-> Slice(entries[i].message, 200)]]

-----------------------------------------------------------------------------
(* debug-page.py: debug_page *)

\* a statement of the try block raised: the except clause prints the error
\* and the finally clause follows
Except ==
    /\ printed' = printed \cup {"error_during_debugging"}
    /\ dpc' = "finally"

\* webdriver.Chrome(options=options); driver.implicitly_wait(10)
DebugInitDriver ==
    /\ dpc = "start"
    /\ \E chrome \in {"ok", "raised"}, wait \in {"ok", "raised"} :
        /\ dsession' = IF chrome = "ok" THEN "Open" ELSE "None"
        /\ ddriver' = IF chrome = "ok" THEN "bound" ELSE "unbound"
        /\ IF chrome = "ok" /\ wait = "ok"
           THEN dpc' = "navigate" /\ UNCHANGED printed
           ELSE Except
    /\ UNCHANGED <<found_errors, shown, ran, snapshot>>
    /\ UNCHANGED <<tvars, verdict>>

\* driver.get, the wait for the page, its title and the length of its source
DebugNavigate ==
    /\ dpc = "navigate"
    /\ \E ok \in BOOLEAN, p \in Pages :
        IF ok
        THEN /\ page' = p
             /\ ran' = ran \cup {"navigate"}
             /\ dpc' = "body_text"
             /\ UNCHANGED printed
        ELSE /\ Except
             /\ UNCHANGED <<page, ran>>
    /\ UNCHANGED <<dsession, ddriver, found_errors, shown, logs, expected>>
    /\ UNCHANGED <<tvars, verdict>>

\* the body text, in a try of its own
DebugBodyText ==
    /\ dpc = "body_text"
    /\ \E ok \in BOOLEAN :
        printed' = IF ok THEN printed ELSE printed \cup {"error_getting_body_text"}
    /\ ran' = ran \cup {"body_text"}
    /\ dpc' = "error_patterns"
    /\ UNCHANGED <<dsession, ddriver, found_errors, shown, snapshot>>
    /\ UNCHANGED <<tvars, verdict>>

\* the scan of the page source for the error patterns
DebugErrorPatterns ==
    /\ dpc = "error_patterns"
    /\ \E ok \in BOOLEAN :
        IF ok
        THEN /\ found_errors' = FoundErrors(page)
             /\ printed' = IF FoundErrors(page) # << >>
                           THEN printed \cup {"error_patterns"}
                           ELSE printed
             /\ ran' = ran \cup {"error_patterns"}
             /\ dpc' = "error_elements"
        ELSE /\ Except
             /\ UNCHANGED <<found_errors, ran>>
    /\ UNCHANGED <<dsession, ddriver, shown, snapshot>>
    /\ UNCHANGED <<tvars, verdict>>

\* the elements whose text holds an error word
DebugErrorElements ==
    /\ dpc = "error_elements"
    /\ \E ok \in BOOLEAN, error_elements \in 0..1 :
        IF ok
        THEN /\ printed' = IF error_elements > 0
                           THEN printed \cup {"error_elements"}
                           ELSE printed
             /\ ran' = ran \cup {"error_elements"}
             /\ dpc' = "console"
        ELSE /\ Except
             /\ UNCHANGED ran
    /\ UNCHANGED <<dsession, ddriver, found_errors, shown, snapshot>>
    /\ UNCHANGED <<tvars, verdict>>

\* the console entries
DebugConsole ==
    /\ dpc = "console"
    /\ \E ok \in BOOLEAN, entries \in LogSeqs :
        IF ok
        THEN /\ logs' = entries
             /\ shown' = IF ConsoleWarning(entries)
                         THEN ShownEntries(entries)
                         ELSE << >>
             /\ printed' = IF ConsoleWarning(entries)
                           THEN printed \cup {"console"}
                           ELSE printed
             /\ ran' = ran \cup {"console"}
             /\ dpc' = "screenshot"
        ELSE /\ Except
             /\ UNCHANGED <<logs, shown, ran>>
    /\ UNCHANGED <<dsession, ddriver, found_errors, page, expected>>
    /\ UNCHANGED <<tvars, verdict>>

\* driver.save_screenshot
DebugScreenshot ==
    /\ dpc = "screenshot"
    /\ \E ok \in BOOLEAN :
        IF ok
        THEN /\ ran' = ran \cup {"screenshot"}
             /\ dpc' = "content_length"
             /\ UNCHANGED printed
        ELSE /\ Except
             /\ UNCHANGED ran
    /\ UNCHANGED <<dsession, ddriver, found_errors, shown, snapshot>>
    /\ UNCHANGED <<tvars, verdict>>

\* the length of the page source
DebugContentLength ==
    /\ dpc = "content_length"
    /\ \E ok \in BOOLEAN :
        IF ok
        THEN /\ printed' = IF ShortSource(page)
                           THEN printed \cup {"short_source"}
                           ELSE printed
             /\ ran' = ran \cup {"content_length"}
             /\ dpc' = "markers"
        ELSE /\ Except
             /\ UNCHANGED ran
    /\ UNCHANGED <<dsession, ddriver, found_errors, shown, snapshot>>
    /\ UNCHANGED <<tvars, verdict>>

\* the three markers, each read from driver.page_source anew: the read for
\* the fail-th marker raised (0: none did)
DebugMarkers ==
    /\ dpc = "markers"
    /\ \E fail \in 0..3 :
        LET looked == IF fail = 0 THEN 3 ELSE fail - 1
            missing == {"missing:" \o m : m \in MissingAmong(page, looked)}
        IN  IF fail = 0
            THEN /\ printed' = printed \cup missing
                 /\ ran' = ran \cup {"markers"}
                 /\ dpc' = "finally"
            ELSE /\ printed' = printed \cup missing
                               \cup {"error_during_debugging"}
                 /\ dpc' = "finally"
                 /\ UNCHANGED ran
    /\ UNCHANGED <<dsession, ddriver, found_errors, shown, snapshot>>
    /\ UNCHANGED <<tvars, verdict>>

\* finally: if 'driver' in locals(): driver.quit()
DebugFinally ==
    /\ dpc = "finally"
    /\ dsession' = IF ddriver = "bound" THEN "Closed" ELSE dsession
    /\ dpc' = "done"
    /\ UNCHANGED <<ddriver, found_errors, shown, printed, ran, snapshot>>
    /\ UNCHANGED <<tvars, verdict>>

DebugNext ==
    \/ DebugInitDriver
    \/ DebugNavigate
    \/ DebugBodyText
    \/ DebugErrorPatterns
    \/ DebugErrorElements
    \/ DebugConsole
    \/ DebugScreenshot
    \/ DebugContentLength
    \/ DebugMarkers
    \/ DebugFinally

SpecDebug == Init /\ [][DebugNext]_vars

-----------------------------------------------------------------------------
(* The page-health classification: the checks of debug_page turned into     *)
(* signals, and the verdict derived from the signals                        *)

\* the fixed vocabulary: the error patterns, lower-cased
Vocabulary == {Lower(error_patterns[i]) : i \in DOMAIN error_patterns}

\* one signal pattern:<name> per pattern of the vocabulary that was found
PatternSignals(p) ==
    LET found == FoundErrors(p)
    IN  {"pattern:" \o Lower(found[i]) : i \in DOMAIN found}

Signals(p, entries, expectedMarkers) ==
    (IF ShortSource(p) THEN {"short-source"} ELSE {})
        \cup PatternSignals(p)
        \cup {"missing:" \o m : m \in MissingOf(p, expectedMarkers)}
        \cup (IF ConsoleWarning(entries) THEN {"console-error"} ELSE {})

IsPatternSignal(signal) == SubSeq(signal, 1, 8) = "pattern:"

\* mutant of Verdict: a page is Healthy unless it is Broken
Verdict_NoDegraded(signals) ==
    IF \/ "short-source" \in signals
       \/ 2 * Cardinality({x \in signals : IsPatternSignal(x)})
              > Cardinality(Vocabulary)
    THEN "Broken"
    ELSE "Healthy"

\* Broken if short-source is present or more than half of the patterns
\* matched; Degraded if any other signal is present; Healthy otherwise
Verdict(signals) ==
    IF \/ "short-source" \in signals
       \/ 2 * Cardinality({x \in signals : IsPatternSignal(x)})
              > Cardinality(Vocabulary)
    THEN "Broken"
    ELSE IF signals # {} THEN "Degraded" ELSE "Healthy"

\* classify: the HealthVerdict of a page and its console log
HealthVerdict(p, entries, expectedMarkers) ==
    LET signals == Signals(p, entries, expectedMarkers)
    IN  [verdict |-> Verdict(signals),
         signals |-> signals,
         console |-> IF ConsoleWarning(entries)
                     THEN ShownEntries(entries)
                     ELSE << >>]

ClassifyInit ==
    /\ TesterInit
    /\ DebugInit
    /\ page \in Pages
    /\ logs \in LogSeqs
    /\ expected \in SUBSET DOMAIN markers
    /\ verdict = Unclassified

Classify ==
    /\ verdict = Unclassified
    /\ verdict' = HealthVerdict(page, logs, expected)
    /\ UNCHANGED <<tvars, dvars, snapshot>>

ClassifyNext == Classify

SpecClassify == ClassifyInit /\ [][ClassifyNext]_vars

-----------------------------------------------------------------------------
(* Properties of browser-test.py *)

\* C1: a run that opened a browser session has closed it (driver.quit) by the
\* time the process exits, on every exit path, a failure of setup_driver after
\* webdriver.Chrome returned included
C1_SessionClosedAtExit ==
    pc = "exited" => session # "Open"

FiveChecks ==
    {"health_check", "main_application", "responsive_design", "performance",
     "user_interaction"}

\* every one of the five checks ran and recorded a pass
AllRecordedPass ==
    /\ DOMAIN results = FiveChecks
    /\ results["health_check"] = [type |-> "bool", value |-> TRUE]
    /\ results["main_application"].type = "dict"
    /\ results["main_application"].items.success = TRUE
    /\ results["responsive_design"] = [type |-> "bool", value |-> TRUE]
    /\ results["performance"].type = "dict"
    /\ DOMAIN results["performance"].items = {"average", "minimum", "maximum"}
    /\ results["user_interaction"] = [type |-> "bool", value |-> TRUE]

\* C3 as stated: the exit code of a run is 0 if and only if every check
\* passed, a check that found the page not as expected (a viewport whose body
\* is not displayed, a page without interactive elements) counting as failed
C3_ExitZeroIffNothingFound ==
    (pc = "exited" /\ ~args.install_deps) =>
        (exitCode = 0 <=> (AllRecordedPass /\ issues = {}))

\* C3 as amended: the exit code is 0 if and only if setup succeeded and each
\* of the five checks recorded a pass (or --install-deps was given and no run
\* was made), and 1 otherwise; what a check merely reports does not count
C3_ExitCode ==
    pc = "exited" =>
        /\ exitCode \in {0, 1}
        /\ exitCode = 0 <=> (args.install_deps \/ AllRecordedPass)

\* a run exits with 0 although a viewport's body was not displayed
C3_Witness ==
    /\ pc = "exited"
    /\ ~args.install_deps
    /\ exitCode = 0
    /\ AllRecordedPass
    /\ "responsive_design" \in issues

\* trace, vi and lines are those of test_responsive_design
InResponsive == pc = "responsive_design" /\ vi > 1

AfterResponsive == pc = "performance" /\ times = << >>

\* the calls of the k-th pass of the loop lie at 4k-3 .. 4k of the trace
CallsOfPass(k) == SubSeq(trace, 4 * k - 3, 4 * k)

NoneRaised == \A i \in 1..Len(trace) : trace[i].out # "raised"

\* C8 as stated: test_responsive_design yields one result per viewport even
\* when a query fails
C8_OneResultPerViewportAlways ==
    AfterResponsive => Len(lines) = 3

\* C8 as amended: the results are those of a prefix of the viewport list, in
\* its order, each made by resize, then the settle delay, then the query of
\* the body; a body that is not displayed yields its result and the loop goes
\* on; the check samples all viewports and records a pass if and only if no
\* call raised, and a call that raises ends the loop with the results so far
C8_SampleViewports ==
    (InResponsive \/ AfterResponsive) =>
        /\ Len(lines) <= 3
        /\ Len(trace) >= 4 * Len(lines)
        /\ \A k \in 1..Len(lines) :
            /\ lines[k].name = <<"Desktop", "Tablet", "Mobile">>[k]
            /\ lines[k].width = <<1920, 768, 375>>[k]
            /\ lines[k].height = <<1080, 1024, 667>>[k]
            /\ CallsOfPass(k)[1].op = "set_window_size"
            /\ CallsOfPass(k)[1].arg =
                   <<"1920x1080", "768x1024", "375x667">>[k]
            /\ CallsOfPass(k)[2].op = "sleep"
            /\ CallsOfPass(k)[2].took = 1
            /\ CallsOfPass(k)[3].op = "find_element"
            /\ CallsOfPass(k)[3].arg = "body"
            /\ CallsOfPass(k)[4].op = "is_displayed"
            /\ CallsOfPass(k)[4].out = Str(lines[k].responsive)
        /\ InResponsive => NoneRaised /\ Len(trace) = 4 * Len(lines)
        /\ AfterResponsive =>
            /\ results["responsive_design"].value <=> NoneRaised
            /\ NoneRaised => Len(lines) = 3 /\ Len(trace) = 12
            /\ ~NoneRaised =>
                /\ Len(lines) < 3
                /\ trace[Len(trace)].out = "raised"
                /\ Len(trace) - 4 * Len(lines) \in {1, 3, 4}

\* all three viewports were sampled although the body of one was not displayed
C8_Witness ==
    /\ AfterResponsive
    /\ results["responsive_design"].value
    /\ Len(lines) = 3
    /\ ~lines[1].responsive
    /\ lines[3].responsive

\* trace and times are those of test_performance
InPerformance == pc = "performance" /\ times # << >>

AfterPerformance == pc = "user_interaction"

Returned == {i \in 1..Len(trace) : trace[i].out # "raised"}

SessionOperations ==
    {"get", "find_element", "find_elements", "set_window_size", "get_log",
     "save_screenshot"}

Ops(calls) == {calls[i].op : i \in DOMAIN calls}

QuitCall == Call("quit", "", 0, "ok")

\* the step issued calls
Issues == trace' # trace

\* C11: the session goes from Open to Closed and stays Closed: no step
\* issues a session operation after quit or without a session, quit is
\* issued at most once (only on an Open session, which it closes, and nothing
\* follows it but the exit), and the screenshot and then the report are
\* produced with all five checks recorded and the session still Open
C11_SessionLifecycle ==
    [][ /\ session = "Closed" =>
            (session' = "Closed" /\ pc' = "exited" /\ trace' = trace)
        /\ (session = "None" /\ Issues) =>
            Ops(trace') \cap (SessionOperations \cup {"quit"}) = {}
        /\ (Issues /\ "quit" \in Ops(trace')) =>
            (session = "Open" /\ session' = "Closed" /\ trace' = <<QuitCall>>)
        /\ (session = "Open" /\ session' # "Open") =>
            /\ session' = "Closed"
            /\ trace' = <<QuitCall>>
            /\ DOMAIN results = FiveChecks
            /\ pc = "finally"
            /\ Ops(trace) = {"save_screenshot"}
        /\ (Issues /\ "save_screenshot" \in Ops(trace')) =>
            /\ DOMAIN results = FiveChecks
            /\ results' = results
            /\ pc' = "report"
            /\ session = "Open" /\ session' = "Open"
        /\ (pc = "report" /\ pc' # "report") =>
            /\ DOMAIN results = FiveChecks
            /\ Ops(trace) = {"save_screenshot"}
            /\ pc' = "finally"
            /\ session = "Open" /\ session' = "Open"
      ]_vars

\* a run in which a check failed has ended: the five checks are recorded,
\* the report was produced, quit was the last call and the session is Closed
C11_Witness ==
    /\ pc = "exited"
    /\ session = "Closed"
    /\ trace = <<QuitCall>>
    /\ DOMAIN results = FiveChecks
    /\ success = FALSE
    /\ exitCode = 1

-----------------------------------------------------------------------------
(* Properties of debug-page.py *)

DebugChecks ==
    {"navigate", "body_text", "error_patterns", "error_elements", "console",
     "screenshot", "content_length", "markers"}

\* C2: a failure inside one check does not abort the checks after it: once
\* the session is set up and the page is loaded, every check of debug_page has
\* run when debug_page ends
C2_LaterChecksStillRun ==
    (dpc = "done" /\ "navigate" \in ran) => ran = DebugChecks

\* C10: the console check reports a console error if and only if an entry of
\* the console log has level SEVERE or ERROR
C10_ConsoleErrorIffSevere ==
    "console" \in ran =>
        ("console" \in printed <=>
            \E i \in DOMAIN logs : logs[i].level \in {"SEVERE", "ERROR"})

-----------------------------------------------------------------------------
(* Properties of the classification *)

Classified == verdict # Unclassified

\* the error patterns and the markers a part of a page was written to hold
Holds(part) ==
    CASE part = Frag500 -> {"500", "error"}
      [] part = Frag404 -> {"404", "not found"}
      [] part = FragGateway -> {"502", "503"}
      [] part = FragFailed -> {"failed", "timeout", "exception"}
      [] part = FragErrors -> {"error"}
      [] part = FragShell -> {"Forbidden Library", "data-theme=\"dark\"", "sveltekit"}
      [] part = FragTitle -> {"Forbidden Library"}
      [] OTHER -> {}

HeldBy(p) == UNION {Holds(p.parts[i]) : i \in DOMAIN p.parts}

NinePatterns ==
    {"error", "exception", "failed", "not found", "404", "500", "502", "503",
     "timeout"}

ThreeMarkers == {"Forbidden Library", "data-theme=\"dark\"", "sveltekit"}

\* C4: the signal set of a HealthVerdict is empty if and only if its verdict
\* is Healthy
C4_EmptyIffHealthy ==
    Classified => (verdict.signals = {} <=> verdict.verdict = "Healthy")

\* a page of 1000 characters with the three markers expected of it, no
\* pattern and no console entry is Healthy and has no signal
C4_Witness ==
    /\ Classified
    /\ SourceLen(page) = 1000
    /\ expected = 1..3
    /\ logs = << >>
    /\ verdict.verdict = "Healthy"
    /\ verdict.signals = {}

\* C5: a page whose source is shorter than 1000 characters is Broken,
\* whatever other signals it has
C5_ShortSourceBroken ==
    (Classified /\ SourceLen(page) < 1000) => verdict.verdict = "Broken"

\* a page of 999 characters with all markers, no pattern and no console entry
C5_Witness ==
    /\ Classified
    /\ SourceLen(page) = 999
    /\ HeldBy(page) = ThreeMarkers
    /\ logs = << >>
    /\ verdict.signals = {"short-source"}
    /\ verdict.verdict = "Broken"

\* C6: for a page of 1000 characters or more the pattern signals are those of
\* the nine patterns the page holds, in whatever case and however often, and
\* the verdict is Broken with 5 or more of them and Degraded with 1 to 4
C6_PatternCount ==
    (Classified /\ SourceLen(page) >= 1000) =>
        LET held == HeldBy(page) \cap NinePatterns
        IN  /\ {x \in verdict.signals : IsPatternSignal(x)}
                   = {"pattern:" \o name : name \in held}
            /\ Cardinality(held) >= 5 => verdict.verdict = "Broken"
            /\ Cardinality(held) \in 1..4 => verdict.verdict = "Degraded"

\* a page with exactly 5 of the 9 patterns, four of them not in lower case,
\* is Broken
C6_Witness ==
    /\ Classified
    /\ SourceLen(page) = 1000
    /\ page.parts = <<FragFailed, Frag500>>
    /\ verdict.verdict = "Broken"

\* C7: a page of 1000 characters or more with no error pattern, no marker
\* missing and no SEVERE console entry is Healthy, with an empty signal set
C7_CleanPageHealthy ==
    ( /\ Classified
      /\ SourceLen(page) >= 1000
      /\ HeldBy(page) \cap NinePatterns = {}
      /\ \A i \in expected : markers[i] \in HeldBy(page)
      /\ \A i \in DOMAIN logs : logs[i].level # "SEVERE" ) =>
        (verdict.verdict = "Healthy" /\ verdict.signals = {})

=============================================================================
